---- MODULE Spec2Model ----
(***************************************************************************)
(* Model of the aggregation engine of amcat4 (src/amcat4/aggregate.py):   *)
(* query_aggregate, _aggregate_results, _elastic_aggregate and            *)
(* _bare_aggregate, run against a search backend whose responses are      *)
(* chosen nondeterministically.                                            *)
(*                                                                         *)
(* One behaviour is one call of query_aggregate.  The recursive generator *)
(* _aggregate_results is a stack of frames; list() in query_aggregate     *)
(* pulls rows from it one at a time into `rows`.                          *)
(*                                                                         *)
(* Values that the backend returns are symbolic cells                      *)
(*   [kind, name, call, idx]                                               *)
(* naming the backend call and the bucket they come from, so that the     *)
(* origin and the order of every value in a row can be checked.           *)
(* Axes and aggregations of this specification are over non-date fields   *)
(* without interval: BoundAxis.get_value and BoundAggregation.get_value   *)
(* return the raw value for them (aggregate.py lines 80 and 128).         *)
(***************************************************************************)
EXTENDS Naturals, Sequences, FiniteSets, TLC

\* ------------------------------------------------------------------ bounds
MaxAxes == 3
MaxAggs == 2
MaxQueries == 2
MaxCursors == 1
MaxBuckets == 2

\* ------------------------------------------------------------------ inputs
AxisFields == {"_query", "a", "b"}
AggNames == <<"m1", "m2", "m3", "m4">>
LabelNames == <<"q1", "q2", "q3", "q4">>
INDEX == "ix"

RECURSIVE SeqsUpTo(_, _)
SeqsUpTo(S, n) ==
    IF n = 0 THEN {<<>>}
    ELSE LET shorter == SeqsUpTo(S, n - 1)
         IN  shorter \cup {Append(s, x) : s \in shorter, x \in S}

NoDup(s) == \A j, k \in DOMAIN s : j # k => s[j] # s[k]

\* A named-query mapping: its labels in insertion order (keys are distinct).
\* The query string of a label is the label's own expression.
Labels == {LabelNames[k] : k \in 1..MaxQueries}
QueryMappings == {s \in SeqsUpTo(Labels, MaxQueries) : NoDup(s)}

VARIABLES
    axes,         \* argument axes: the fields of the Axis objects, in order
    aggregations, \* argument aggregations: the names of the Aggregation objects
    queries_arg,  \* argument queries: [given, items]; given = FALSE is None
    filters,      \* argument filters: TRUE iff a non-empty filter mapping
    pc,           \* position in query_aggregate
    error,        \* the exception query_aggregate raised, "none" if none
    queries,      \* the normalized named-query mapping (labels in order)
    FIELD_CACHE,  \* elastic.FIELD_CACHE: the indices with a cached mapping
    calls,        \* every resolver and backend call made so far, in order
    stack,        \* the active _aggregate_results generators, outermost first
    page,         \* _elastic_aggregate: buckets of the current page still to yield
    after_key,    \* _elastic_aggregate: after_key of the current page (0 = none)
    scalar,       \* _bare_aggregate / count: the values fetched so far
    rows,         \* rows list() has pulled from the generator so far
    result,       \* the AggregateResult returned: [returned, data]
    pages,        \* history: the requests/responses of the current _elastic_aggregate
    emitted,      \* history: the buckets the current _elastic_aggregate yielded
    runs,         \* history: the sub-pipelines the outermost _query frame ran
    served        \* history: the buckets and cursors the backend has handed out

\* A bound axis and a bound aggregation on their own (BoundAxis, BoundAggregation)
VARIABLES
    bax,          \* a BoundAxis: [field, interval, name, ftype]
    raw,          \* the raw bucket key handed to BoundAxis.get_value
    bagg,         \* a BoundAggregation: [ftype, value], value the metric's 'value'
    out           \* what query(), get_value(), runtime_mappings() returned so far

\* The field-type cache of elastic.py and the threads that use it
VARIABLES
    mapping,      \* the version of the mapping the backend holds for INDEX
    cached,       \* the mapping version FIELD_CACHE[INDEX] holds, 0 without entry
    tpc,          \* per thread: its position in the operation it runs
    tlocal,       \* per thread: `result` of get_index_fields (a mapping version)
    tret,         \* per thread: what its last get_index_fields returned, and when
    overlap       \* TRUE iff calls of different threads may overlap in time

axisvars == <<bax, raw, bagg, out>>

threadvars == <<tpc, tlocal, tret, overlap>>

others == <<axisvars, threadvars, mapping>>

vars == <<axes, aggregations, queries_arg, filters, pc, error, queries, FIELD_CACHE,
          calls, stack, page, after_key, scalar, rows, result, pages, emitted, runs,
          served, bax, raw, bagg, out, mapping, cached, tpc, tlocal, tret, overlap>>

inputs == <<axes, aggregations, queries_arg, filters>>

\* ----------------------------------------------------------- pure helpers
\* Python's t[:i] and t[i:] on a tuple (an index past the end is clipped).
SliceTo(t, i) == SubSeq(t, 1, IF i < Len(t) THEN i ELSE Len(t))
SliceFrom(t, i) == SubSeq(t, (IF i < Len(t) THEN i ELSE Len(t)) + 1, Len(t))

RECURSIVE Concat(_)
Concat(ss) == IF ss = <<>> THEN <<>> ELSE Head(ss) \o Concat(Tail(ss))

\* The labels as query_aggregate receives them: None or a mapping.
NormalizeQueries(q) == IF q.given THEN q.items ELSE <<>>

\* query_aggregate's validation: the comprehension [x.field == "_query" for x in
\* axes[1:]] has one element per axis after the first, whatever its field.
TooManyQueryAxes(ax) == ax # <<>> /\ Len(Tail(ax)) > 1

\* BoundAxis.__init__ / BoundAggregation.__init__: the field_type lookups of
\* binding, one per axis that is not "_query" and one per aggregation.
BindLookups(ax, aggs) ==
    [k \in 1..Len(SelectSeq(ax, LAMBDA f : f # "_query")) |->
        [op |-> "field_type", name |-> SelectSeq(ax, LAMBDA f : f # "_query")[k],
         after |-> 0, queries |-> <<>>, filters |-> FALSE, sources |-> <<>>,
         aggs |-> <<>>]]
    \o [k \in 1..Len(aggs) |->
        [op |-> "field_type", name |-> aggs[k],
         after |-> 0, queries |-> <<>>, filters |-> FALSE, sources |-> <<>>,
         aggs |-> <<>>]]

\* get_index_fields: a cache miss fetches the mapping from the backend.
GetMappingCall ==
    [op |-> "get_mapping", name |-> INDEX, after |-> 0, queries |-> <<>>,
     filters |-> FALSE, sources |-> <<>>, aggs |-> <<>>]

\* _aggregate_results: i = [ax.field for ax in axes].index("_query")  (0-based)
QueryAxisIndex(ax) ==
    (CHOOSE k \in 1..Len(ax) : ax[k] = "_query" /\ \A j \in 1..(k - 1) : ax[j] # "_query") - 1

\* _aggregate_results: _axes = axes[:i] + axes[(i+1):]
StripAxis(ax, i) == SliceTo(ax, i) \o SliceFrom(ax, i + 1)

\* _aggregate_results: the mapping {label: query} handed to the sub-pipeline
SingleQuery_all(label, qs) == qs

SingleQuery(label, qs) == <<label>>

LabelCell(label) == [kind |-> "label", name |-> label, call |-> 0, idx |-> 0]

\* _aggregate_results: result_tuple[:i] + (label,) + result_tuple[i:]
InsertLabel_overwrite(t, i, label) ==
    SliceTo(t, i) \o <<LabelCell(label)>> \o SliceFrom(t, i + 1)

InsertLabel_append(t, i, label) == t \o <<LabelCell(label)>>

InsertLabel(t, i, label) == SliceTo(t, i) \o <<LabelCell(label)>> \o SliceFrom(t, i)

\* _elastic_aggregate: after = {"after": after_key} if after_key else {}
AfterParam_none(ak) == 0

AfterParam(ak) == ak

\* _elastic_aggregate: result.get("_shards", {}).get("failures")
ShardFailure_ignored(resp) == FALSE

ShardFailure_emptyOnly(resp) == resp.failures /\ resp.buckets = <<>>

ShardFailure(resp) == resp.failures

\* _elastic_aggregate: the after_key of the response, followed when truthy
HasCursor_always(ak) == TRUE

HasCursor(ak) == ak # 0

\* BoundAxis.get_value: values[self.name], returned raw (no interval, not a date)
AxisValue(bucket, name) ==
    [kind |-> "key", name |-> name, call |-> bucket.call, idx |-> bucket.idx]

\* BoundAggregation.get_value: bucket[self.name]['value'], returned raw
MetricValue(bucket, name) ==
    [kind |-> "metric", name |-> name, call |-> bucket.call, idx |-> bucket.idx]

DocCount(bucket) ==
    [kind |-> "doc_count", name |-> "n", call |-> bucket.call, idx |-> bucket.idx]

\* _aggregate_results: the row of one composite bucket
Row(bucket, ax, aggs) ==
    [k \in 1..Len(ax) |-> AxisValue(bucket, ax[k])]
    \o <<DocCount(bucket)>>
    \o [k \in 1..Len(aggs) |-> MetricValue(bucket, aggs[k])]

\* _aggregate_results: (count,) + tuple(a.get_value(results) for a in aggregations)
ScalarRow(count, aresult, aggs) ==
    <<count>> \o [k \in 1..Len(aggs) |-> MetricValue(aresult, aggs[k])]

\* _elastic_aggregate / _bare_aggregate: the query clause of a request, none
\* when neither filters nor queries are given.
RequestQuery(qs, flt) == IF flt \/ qs # <<>> THEN qs ELSE <<>>

\* _aggregate_results: which branch a call with these axes takes, as the frame
\* of the generator it creates.
NewFrame(ax, qs) ==
    IF ax = <<>>
    THEN [kind |-> "scalar", axes |-> ax, queries |-> qs, i |-> 0, todo |-> <<>>,
          label |-> "", phase |-> IF aggregations # <<>> THEN "search" ELSE "total"]
    ELSE IF \E k \in 1..Len(ax) : ax[k] = "_query"
    THEN [kind |-> "loop", axes |-> ax, queries |-> qs, i |-> QueryAxisIndex(ax),
          todo |-> qs, label |-> "", phase |-> "loop"]
    ELSE [kind |-> "composite", axes |-> ax, queries |-> qs, i |-> 0, todo |-> <<>>,
          label |-> "", phase |-> "request"]

Top == stack[Len(stack)]
Pop == SubSeq(stack, 1, Len(stack) - 1)
SetTop(f) == [stack EXCEPT ![Len(stack)] = f]

\* A row yielded by frame k+1 as it leaves frames k, k-1, .., low: each "_query"
\* frame inserts the label it is iterating.
RECURSIVE PassUp(_, _, _)
PassUp(row, k, low) ==
    IF k < low THEN row
    ELSE PassUp(InsertLabel(row, stack[k].i, stack[k].label), k - 1, low)

\* ------------------------------------------------------------------- state
NoBucket == [call |-> 0, idx |-> 0]
NoScalar == [aresult |-> NoBucket, count |-> LabelCell("")]
NoResult == [returned |-> FALSE, data |-> <<>>]

Call(op, name, after, qs, flt, sources, aggs) ==
    [op |-> op, name |-> name, after |-> after, queries |-> qs, filters |-> flt,
     sources |-> sources, aggs |-> aggs]

\* The variables of the other specifications, where they are not used.
AxisUnused ==
    /\ bax = [field |-> "", interval |-> "", name |-> <<>>, ftype |-> ""]
    /\ raw = 0
    /\ bagg = [ftype |-> "", value |-> [kind |-> "null", v |-> 0, tag |-> ""]]
    /\ out = <<>>

ThreadsUnused ==
    /\ tpc = <<>>
    /\ tlocal = <<>>
    /\ tret = <<>>
    /\ overlap = FALSE

Init ==
    /\ axes \in SeqsUpTo(AxisFields, MaxAxes)
    /\ aggregations \in {SubSeq(AggNames, 1, n) : n \in 0..MaxAggs}
    /\ queries_arg \in {[given |-> FALSE, items |-> <<>>]}
                       \cup {[given |-> TRUE, items |-> m] : m \in QueryMappings}
    /\ filters \in BOOLEAN
    /\ FIELD_CACHE \in {{}, {INDEX}}
    /\ mapping = 1
    /\ cached = IF INDEX \in FIELD_CACHE THEN mapping ELSE 0
    /\ AxisUnused
    /\ ThreadsUnused
    /\ pc = "validate"
    /\ error = "none"
    /\ queries = <<>>
    /\ calls = <<>>
    /\ stack = <<>>
    /\ page = <<>>
    /\ after_key = 0
    /\ scalar = NoScalar
    /\ rows = <<>>
    /\ result = NoResult
    /\ pages = <<>>
    /\ emitted = <<>>
    /\ runs = <<>>
    /\ served = [buckets |-> 0, cursors |-> 0]

\* An exception leaves query_aggregate: the generators are unwound and nothing
\* is returned.
Raise(e) ==
    /\ pc' = "raised"
    /\ error' = e
    /\ stack' = <<>>

\* ----------------------------------------------------------- query_aggregate
\* if axes and len([...]) > 1: raise ValueError(...)
Validate ==
    /\ pc = "validate"
    /\ \/ /\ TooManyQueryAxes(axes)
          /\ Raise("ValueError")
       \/ /\ ~TooManyQueryAxes(axes)
          /\ pc' = "bind"
          /\ UNCHANGED <<error, stack>>
    /\ UNCHANGED <<others, inputs, served, queries, FIELD_CACHE, cached, calls, page, after_key, scalar,
                   rows, result, pages, emitted, runs>>

\* elastic.get_index_fields run to its end with no other call in between:
\* the cache entry c of the index (0 = no entry) afterwards, m the mapping
\* the backend holds. A cached mapping is returned and kept, a miss fetches
\* the mapping and stores it.
GetIndexFields_nostore(c, m) == c

GetIndexFields(c, m) == IF c # 0 THEN c ELSE m

\* _axes = [BoundAxis(..)], _aggregations = [BoundAggregation(..)]: every
\* field_type lookup goes through get_index_fields, which fetches and caches
\* the mapping of the index on a miss.
Bind ==
    /\ pc = "bind"
    /\ LET lookups == BindLookups(axes, aggregations)
           miss == lookups # <<>> /\ INDEX \notin FIELD_CACHE
       IN  /\ calls' = calls \o (IF miss
                                 THEN <<Head(lookups), GetMappingCall>> \o Tail(lookups)
                                 ELSE lookups)
           /\ cached' = IF lookups # <<>> THEN GetIndexFields(cached, mapping) ELSE cached
           /\ FIELD_CACHE' = IF cached' # 0 THEN FIELD_CACHE \cup {INDEX} ELSE FIELD_CACHE
    /\ pc' = "start"
    /\ UNCHANGED <<others, inputs, served, error, queries, stack, page, after_key, scalar, rows,
                   result, pages, emitted, runs>>

\* queries = _normalize_queries(queries); list(_aggregate_results(...)) starts
\* pulling from the outermost generator.
Start ==
    /\ pc = "start"
    /\ queries' = NormalizeQueries(queries_arg)
    /\ stack' = <<NewFrame(axes, queries')>>
    /\ pc' = "run"
    /\ UNCHANGED <<others, inputs, served, error, FIELD_CACHE, cached, calls, page, after_key, scalar, rows,
                   result, pages, emitted, runs>>

\* The row `row`, yielded by the innermost generator, reaches list().
Yield(row) ==
    /\ rows' = Append(rows, PassUp(row, Len(stack) - 1, 1))
    /\ runs' = IF Len(stack) >= 2
               THEN [runs EXCEPT ![Len(runs)].rows =
                        Append(@, PassUp(row, Len(stack) - 1, 2))]
               ELSE runs

\* -------------------------------------------------- _aggregate_results: _query
\* for label, query in queries.items(): the next sub-pipeline is created with
\* the reduced axes and the single query of that label.
NextQuery ==
    /\ pc = "run" /\ stack # <<>>
    /\ Top.kind = "loop" /\ Top.todo # <<>>
    /\ LET label == Head(Top.todo)
           sub == NewFrame(StripAxis(Top.axes, Top.i), SingleQuery(label, Top.queries))
       IN  /\ stack' = Append(SetTop([Top EXCEPT !.label = label, !.todo = Tail(@)]), sub)
           /\ runs' = IF Len(stack) = 1
                      THEN Append(runs, [label |-> label, axes |-> sub.axes,
                                         queries |-> sub.queries, rows |-> <<>>])
                      ELSE runs
           /\ pages' = IF sub.kind = "composite" THEN <<>> ELSE pages
           /\ emitted' = IF sub.kind = "composite" THEN <<>> ELSE emitted
    /\ page' = <<>>
    /\ after_key' = 0
    /\ scalar' = NoScalar
    /\ UNCHANGED <<others, inputs, served, pc, error, queries, FIELD_CACHE, cached, calls, rows, result>>

\* A generator that has nothing more to yield ends; its caller goes on.
StopIteration ==
    /\ pc = "run" /\ stack # <<>>
    /\ \/ Top.phase = "end"
       \/ Top.kind = "loop" /\ Top.todo = <<>>
    /\ stack' = Pop
    /\ UNCHANGED <<others, inputs, served, pc, error, queries, FIELD_CACHE, cached, calls, page, after_key,
                   scalar, rows, result, pages, emitted, runs>>

\* ---------------------------------------------------------- _elastic_aggregate
\* The responses the backend can give to the composite search that is call
\* number n: some buckets, possibly an after_key (its own: n), possibly shard
\* failures.  Over one query_aggregate call the backend hands out at most
\* MaxBuckets buckets and MaxCursors after_keys.
Responses(n) ==
    {[buckets |-> [j \in 1..nb |-> [call |-> n, idx |-> j]],
      after_key |-> ak, failures |-> f] :
        nb \in 0..(MaxBuckets - served.buckets),
        ak \in {0} \cup (IF served.cursors < MaxCursors THEN {n} ELSE {}),
        f \in BOOLEAN}

\* es().search(size=0, aggregations={composite: sources, after}, query=..);
\* failures in the response raise, otherwise its buckets are next to be yielded.
ElasticSearch ==
    /\ pc = "run" /\ stack # <<>>
    /\ Top.kind = "composite" /\ Top.phase = "request"
    /\ LET n == Len(calls) + 1
       IN  /\ calls' = Append(calls,
                  Call("search", "composite", AfterParam(after_key),
                       RequestQuery(Top.queries, filters), filters, Top.axes, aggregations))
           /\ \E resp \in Responses(n) :
                /\ pages' = Append(pages, [after |-> AfterParam(after_key), n |-> n,
                                           buckets |-> resp.buckets,
                                           after_key |-> resp.after_key,
                                           failures |-> resp.failures])
                /\ served' = [buckets |-> served.buckets + Len(resp.buckets),
                              cursors |-> served.cursors
                                          + (IF resp.after_key # 0 THEN 1 ELSE 0)]
                /\ \/ /\ ShardFailure(resp)
                      /\ Raise("ShardFailure")
                      /\ UNCHANGED <<page, after_key>>
                   \/ /\ ~ShardFailure(resp)
                      /\ page' = resp.buckets
                      /\ after_key' = resp.after_key
                      /\ stack' = SetTop([Top EXCEPT !.phase = "emit"])
                      /\ UNCHANGED <<pc, error>>
    /\ UNCHANGED <<others, inputs, queries, FIELD_CACHE, cached, scalar, rows, result, emitted, runs>>

\* yield from result['aggregations']['aggs']['buckets'], one bucket at a time;
\* _aggregate_results turns the bucket into a row.
YieldBucket ==
    /\ pc = "run" /\ stack # <<>>
    /\ Top.kind = "composite" /\ Top.phase = "emit" /\ page # <<>>
    /\ Yield(Row(Head(page), Top.axes, aggregations))
    /\ emitted' = Append(emitted, Head(page))
    /\ page' = Tail(page)
    /\ UNCHANGED <<others, inputs, served, pc, error, queries, FIELD_CACHE, cached, calls, stack, after_key,
                   scalar, result, pages>>

\* after_key = result[..].get('after_key'); if after_key: recurse with it,
\* otherwise the generator ends.
NextPage ==
    /\ pc = "run" /\ stack # <<>>
    /\ Top.kind = "composite" /\ Top.phase = "emit" /\ page = <<>>
    /\ stack' = SetTop([Top EXCEPT !.phase = IF HasCursor(after_key) THEN "request" ELSE "end"])
    /\ UNCHANGED <<others, inputs, served, pc, error, queries, FIELD_CACHE, cached, calls, page, after_key,
                   scalar, rows, result, pages, emitted, runs>>

\* ------------------------------------------------------------- _bare_aggregate
\* query = build_body(..) if filters or queries else {"match_all": {}}, then
\* es().search(query=query['query'], size=0, aggregations=..): the literal has
\* no 'query' key, so without filters and queries the lookup raises KeyError
\* before the search is issued.
BareSearch ==
    /\ pc = "run" /\ stack # <<>>
    /\ Top.kind = "scalar" /\ Top.phase = "search"
    /\ \/ /\ ~(filters \/ Top.queries # <<>>)
          /\ Raise("KeyError")
          /\ UNCHANGED <<calls, scalar>>
       \/ /\ filters \/ Top.queries # <<>>
          /\ calls' = Append(calls,
                 Call("search", "metrics", 0, RequestQuery(Top.queries, filters),
                      filters, <<>>, aggregations))
          /\ scalar' = [scalar EXCEPT !.aresult = [call |-> Len(calls) + 1, idx |-> 0]]
          /\ stack' = SetTop([Top EXCEPT !.phase = "count"])
          /\ UNCHANGED <<pc, error>>
    /\ UNCHANGED <<others, inputs, served, queries, FIELD_CACHE, cached, page, after_key, rows, result,
                   pages, emitted, runs>>

\* cresult = es().count(body=query, index=index), in _bare_aggregate after the
\* search, and in _aggregate_results (total count only) when there are no
\* aggregations either.
Count ==
    /\ pc = "run" /\ stack # <<>>
    /\ Top.kind = "scalar" /\ Top.phase \in {"count", "total"}
    /\ calls' = Append(calls,
           Call("count", "count", 0, RequestQuery(Top.queries, filters), filters,
                <<>>, <<>>))
    /\ scalar' = [scalar EXCEPT !.count =
                     [kind |-> "count", name |-> "count", call |-> Len(calls) + 1, idx |-> 0]]
    /\ stack' = SetTop([Top EXCEPT !.phase = "yield"])
    /\ UNCHANGED <<others, inputs, served, pc, error, queries, FIELD_CACHE, cached, page, after_key, rows,
                   result, pages, emitted, runs>>

\* yield (count,) + metrics, or yield (count,)
YieldScalar ==
    /\ pc = "run" /\ stack # <<>>
    /\ Top.kind = "scalar" /\ Top.phase = "yield"
    /\ Yield(ScalarRow(scalar.count, scalar.aresult, aggregations))
    /\ stack' = SetTop([Top EXCEPT !.phase = "end"])
    /\ UNCHANGED <<others, inputs, served, pc, error, queries, FIELD_CACHE, cached, calls, page, after_key,
                   scalar, result, pages, emitted>>

\* ----------------------------------------------------------- query_aggregate
\* The outermost generator is exhausted: return AggregateResult(.., data, ..).
ResultData(rs) == rs

Return ==
    /\ pc = "run" /\ stack = <<>>
    /\ result' = [returned |-> TRUE, data |-> ResultData(rows)]
    /\ pc' = "done"
    /\ UNCHANGED <<others, inputs, served, error, queries, FIELD_CACHE, cached, calls, stack, page, after_key,
                   scalar, rows, pages, emitted, runs>>

Next ==
    \/ Validate
    \/ Bind
    \/ Start
    \/ NextQuery
    \/ StopIteration
    \/ ElasticSearch
    \/ YieldBucket
    \/ NextPage
    \/ BareSearch
    \/ Count
    \/ YieldScalar
    \/ Return

Spec == Init /\ [][Next]_vars

\* ===================================================================== claims
CountQueryAxes(ax) == Cardinality({k \in DOMAIN ax : ax[k] = "_query"})

IsPrefix(s, t) == Len(s) <= Len(t) /\ SubSeq(t, 1, Len(s)) = s

IsRequest(c) == c.op \in {"search", "count"}

Searches == SelectSeq(calls, LAMBDA c : c.op = "search")

Counts == SelectSeq(calls, LAMBDA c : c.op = "count")

\* The buckets of the pages 1..n of the current _elastic_aggregate, in order.
PageBuckets(n) == Concat([k \in 1..n |-> pages[k].buckets])

NoFailure == \A k \in DOMAIN pages : ~pages[k].failures

CompositeEnded == stack # <<>> /\ Top.kind = "composite" /\ Top.phase = "end"

\* C1: whenever more than one axis has field "_query", query_aggregate raises
\* the validation error, and it does so before any resolver or backend call
\* (no field-type lookup, no search, no count).
C1_ManyQueryAxesRejectedFirst ==
    CountQueryAxes(axes) > 1 =>
        /\ calls = <<>>
        /\ pc \in {"done", "raised"} => error = "ValueError"

\* C2: the validation error is raised only when more than one axis has field
\* "_query"; a list with zero or one such axis passes validation.
C2_ValidationErrorOnlyForManyQueryAxes ==
    error = "ValueError" => CountQueryAxes(axes) > 1

\* C3: every row of a returned AggregateResult has len(axes) + 1 +
\* len(aggregations) values, whichever path produced it.
C3_RowWidth ==
    result.returned =>
        \A k \in DOMAIN result.data :
            Len(result.data[k]) = Len(axes) + 1 + Len(aggregations)

C3_Witness ==
    /\ result.returned
    /\ axes = <<"a", "_query">>
    /\ Len(aggregations) = 2
    /\ Len(result.data) = 2

\* C4: the first composite request carries no cursor and every later one the
\* after_key of the response just before it; while no page reports a shard
\* failure the buckets yielded are a prefix of the pages' buckets in the order
\* returned, and all of them once the generator has ended.
C4_PagesConcatenated ==
    /\ \A k \in DOMAIN pages :
          /\ calls[pages[k].n].op = "search"
          /\ calls[pages[k].n].after = IF k = 1 THEN 0 ELSE pages[k - 1].after_key
    /\ NoFailure =>
          /\ IsPrefix(emitted, PageBuckets(Len(pages)))
          /\ CompositeEnded => emitted = PageBuckets(Len(pages))

C4_Witness ==
    /\ CompositeEnded
    /\ Len(pages) = 2
    /\ Len(pages[1].buckets) = 1
    /\ Len(emitted) = 2

\* C5: a shard failure on any page makes query_aggregate raise; no
\* AggregateResult is returned, so no row of an earlier page reaches the caller.
C5_ShardFailureFailsTheCall ==
    (\E k \in DOMAIN pages : pages[k].failures)
        => /\ pc = "raised"
           /\ error = "ShardFailure"
           /\ ~result.returned
           /\ result.data = <<>>

C5_Witness ==
    /\ error = "ShardFailure"
    /\ Len(pages) = 2
    /\ rows # <<>>

\* C6 as claimed: the row sequence never raises once it has yielded a row.
C6_NoErrorAfterFirstRow == ~(pc = "raised" /\ rows # <<>>)

\* C6 as amended: a shard failure is raised when the failing page is fetched,
\* possibly after rows of earlier pages were yielded; every earlier page was
\* free of failures and fully yielded, and no bucket of the failing page is
\* ever yielded.
C6_FailureRaisedAtFetch ==
    error = "ShardFailure" =>
        /\ pages # <<>>
        /\ pages[Len(pages)].failures
        /\ \A k \in 1..(Len(pages) - 1) : ~pages[k].failures
        /\ emitted = PageBuckets(Len(pages) - 1)
        /\ \A r \in DOMAIN rows : \A c \in DOMAIN rows[r] :
              rows[r][c].call # pages[Len(pages)].n

C6_Witness ==
    /\ error = "ShardFailure"
    /\ rows # <<>>
    /\ pages[Len(pages)].buckets # <<>>

\* C7: a request follows a response only if that response carried an
\* after_key; the requests of one pagination are consecutive calls, one per
\* page, with pairwise different cursors; when the generator ends, the last
\* response is the first without an after_key and no further call was made.
C7_OneRequestPerPage ==
    /\ \A k \in 1..(Len(pages) - 1) : pages[k].after_key # 0
    /\ \A k \in 1..(Len(pages) - 1) : pages[k + 1].n = pages[k].n + 1
    /\ \A j, k \in DOMAIN pages : j # k => pages[j].after # pages[k].after
    /\ CompositeEnded =>
          /\ pages[Len(pages)].after_key = 0
          /\ pages[Len(pages)].n = Len(calls)

C7_Witness ==
    /\ CompositeEnded
    /\ Len(pages) = 2
    /\ Len(stack) = 1

\* The position (1-based) of the only "_query" axis of the call, its 0-based
\* index, and the axis list without it.
QueryPos == CHOOSE k \in DOMAIN axes : axes[k] = "_query"

ReducedAxes == [k \in 1..(Len(axes) - 1) |-> IF k < QueryPos THEN axes[k] ELSE axes[k + 1]]

\* t[:i] + (label,) + t[i:] for i = QueryPos - 1, written out cell by cell.
WithLabelAt(t, label) ==
    [c \in 1..(Len(t) + 1) |->
        IF c < QueryPos THEN t[c]
        ELSE IF c = QueryPos THEN LabelCell(label)
        ELSE t[c - 1]]

\* The rows of the k-th sub-pipeline run, each with the run's label spliced in.
LabelledRows(k) == [j \in DOMAIN runs[k].rows |-> WithLabelAt(runs[k].rows[j], runs[k].label)]

\* A tuple of the reduced pipeline: the values of the reduced axes in order,
\* the count, then the metrics.
IsReducedTuple(t) ==
    /\ Len(t) = Len(ReducedAxes) + 1 + Len(aggregations)
    /\ \A c \in DOMAIN ReducedAxes : t[c].kind = "key" /\ t[c].name = ReducedAxes[c]
    /\ t[Len(ReducedAxes) + 1].kind \in {"doc_count", "count"}

\* C8: with a single "_query" axis at index i, the result tuples are exactly the
\* tuples t of the runs of the reduced pipeline (the axis list without the
\* "_query" axis, one label's query only), each as t[:i] + (label,) + t[i:].
C8_LabelSplicedAtAxisPosition ==
    (result.returned /\ CountQueryAxes(axes) = 1) =>
        /\ result.data = Concat([k \in DOMAIN runs |-> LabelledRows(k)])
        /\ \A k \in DOMAIN runs :
              /\ runs[k].axes = ReducedAxes
              /\ runs[k].queries = <<runs[k].label>>
              /\ \A j \in DOMAIN runs[k].rows : IsReducedTuple(runs[k].rows[j])
        /\ \A r \in DOMAIN result.data :
              result.data[r][QueryPos].kind = "label"

C8_Witness ==
    /\ result.returned
    /\ axes = <<"a", "_query">>
    /\ aggregations # <<>>
    /\ Len(result.data) = 2
    /\ Len(runs) = 1

\* The index of a label in the named-query mapping.
LabelIndex(label) == CHOOSE k \in DOMAIN queries : queries[k] = label

\* C9: with a "_query" axis the reduced pipeline runs once per entry of the
\* mapping, in insertion order, each run and each of its requests given only
\* that entry; the rows are the runs' rows one run after the other.
C9_OneRunPerQueryInOrder ==
    (result.returned /\ CountQueryAxes(axes) = 1) =>
        /\ Len(runs) = Len(queries)
        /\ \A k \in DOMAIN runs :
              runs[k].label = queries[k] /\ runs[k].queries = <<queries[k]>>
        /\ [r \in DOMAIN result.data |-> result.data[r][QueryPos].name]
              = Concat([k \in DOMAIN runs |-> [j \in DOMAIN runs[k].rows |-> queries[k]]])
        /\ \A n \in DOMAIN calls : IsRequest(calls[n]) =>
              /\ Len(calls[n].queries) = 1
              /\ \A m \in 1..(n - 1) : IsRequest(calls[m]) =>
                    LabelIndex(calls[m].queries[1]) <= LabelIndex(calls[n].queries[1])
        /\ \A k \in DOMAIN queries :
              \E n \in DOMAIN calls : IsRequest(calls[n]) /\ calls[n].queries = <<queries[k]>>

C9_Witness ==
    /\ result.returned
    /\ axes = <<"_query", "a">>
    /\ queries = <<"q2", "q1">>
    /\ Len(result.data) = 2
    /\ result.data[1][1].name = "q2"
    /\ result.data[2][1].name = "q1"

\* C10: with no axes and at least one aggregation, whatever the queries and
\* filters, the call ends with one non-paginated search and one count issued
\* and returns the single row (count, metric_1, .., metric_n).
C10_ScalarRowForEveryQueryAndFilter ==
    (axes = <<>> /\ aggregations # <<>> /\ pc \in {"done", "raised"}) =>
        /\ pc = "done"
        /\ Len(Searches) = 1 /\ Searches[1].name = "metrics"
        /\ Len(Counts) = 1
        /\ Len(result.data) = 1
        /\ result.data[1] = ScalarRow(scalar.count, scalar.aresult, aggregations)

\* ======================================================================
\* BoundAxis and BoundAggregation on their own: query(), get_value() and
\* runtime_mappings() applied to one bound axis, get_value() to one bound
\* aggregation.
\* ======================================================================
corevars == <<axes, aggregations, queries_arg, filters, pc, error, queries, FIELD_CACHE,
              calls, stack, page, after_key, scalar, rows, result, pages, emitted, runs,
              served>>

\* The variables of query_aggregate, where they are not used.
CoreUnused ==
    /\ axes = <<>>
    /\ aggregations = <<>>
    /\ queries_arg = [given |-> FALSE, items |-> <<>>]
    /\ filters = FALSE
    /\ pc = "unused"
    /\ error = "none"
    /\ queries = <<>>
    /\ calls = <<>>
    /\ stack = <<>>
    /\ page = <<>>
    /\ after_key = 0
    /\ scalar = NoScalar
    /\ rows = <<>>
    /\ result = NoResult
    /\ pages = <<>>
    /\ emitted = <<>>
    /\ runs = <<>>
    /\ served = [buckets |-> 0, cursors |-> 0]

\* Field types an index can declare, and the intervals an axis can name: ""
\* is no interval (None), "day" a canonical calendar unit, "hour" another
\* calendar unit, "dayofweek" and "monthnr" intervals of the interval codec,
\* "10" a numeric bucket width.
FieldTypes == {"date", "long", "keyword"}
Intervals == {"", "day", "hour", "dayofweek", "monthnr", "10"}
CodecIntervals == {"dayofweek", "monthnr"}

\* Raw bucket keys and metric values (numbers; epoch-milliseconds for dates).
RawValues == {0, 1, 86400000, 90000000}

Number(v) == [kind |-> "number", v |-> v, tag |-> ""]
Null == [kind |-> "null", v |-> 0, tag |-> ""]

\* Python truthiness of a metric value: None and 0 are false.
Truthy(val) == val.kind # "null" /\ ~(val.kind = "number" /\ val.v = 0)

\* datetime.utcfromtimestamp(value / 1000.) and its .date()
UtcFromTimestamp(ms) == [kind |-> "datetime", v |-> ms, tag |-> ""]
DateOf(ms) == [kind |-> "date", v |-> ms \div 86400000, tag |-> ""]

\* date_mappings.interval_mapping: the codec of an interval name, if any
interval_mapping(interval) ==
    IF interval \in CodecIntervals
    THEN [found |-> TRUE, interval |-> interval]
    ELSE [found |-> FALSE, interval |-> ""]

\* The codec's runtime field for a field, the runtime mapping defining it, and
\* its decode function.
Codec_fieldname(m, field) == [base |-> field, runtime |-> m.interval]
Codec_mapping(m, field) == {Codec_fieldname(m, field)}
Codec_postprocess(m, value) == [kind |-> "decoded", v |-> value, tag |-> m.interval]

PlainField(field) == [base |-> field, runtime |-> ""]

\* Axis.__init__: name, or field_interval, or field
AxisName(field, interval, name) ==
    IF name # "" THEN <<name>>
    ELSE IF interval # "" THEN <<field, interval>>
    ELSE <<field>>

\* BoundAxis.__init__: the type of "_query" is "_query", else the resolved type
BoundAxes ==
    {[field |-> f, interval |-> i, name |-> AxisName(f, i, n), ftype |-> t] :
        f \in {"f"}, i \in Intervals, n \in {"", "x"}, t \in FieldTypes}
    \cup {[field |-> "_query", interval |-> i, name |-> AxisName("_query", i, n),
           ftype |-> "_query"] : i \in {""}, n \in {"", "x"}}

Source(key, agg, field, interval) ==
    [error |-> FALSE, key |-> key, agg |-> agg, field |-> field, interval |-> interval]

\* BoundAxis.query
BoundAxis_query_codecFirst(a) ==
    IF a.ftype = "" THEN [Source(<<>>, "", PlainField(""), "") EXCEPT !.error = TRUE]
    ELSE IF a.interval # ""
    THEN IF interval_mapping(a.interval).found
         THEN Source(a.name, "terms",
                     Codec_fieldname(interval_mapping(a.interval), a.field), "")
         ELSE IF a.ftype = "date"
         THEN Source(a.name, "date_histogram", PlainField(a.field), a.interval)
         ELSE Source(a.name, "histogram", PlainField(a.field), a.interval)
    ELSE Source(a.name, "terms", PlainField(a.field), "")

BoundAxis_query(a) ==
    IF a.ftype = "" THEN [Source(<<>>, "", PlainField(""), "") EXCEPT !.error = TRUE]
    ELSE IF a.interval # ""
    THEN IF a.ftype = "date"
         THEN IF interval_mapping(a.interval).found
              THEN Source(a.name, "terms",
                          Codec_fieldname(interval_mapping(a.interval), a.field), "")
              ELSE Source(a.name, "date_histogram", PlainField(a.field), a.interval)
         ELSE Source(a.name, "histogram", PlainField(a.field), a.interval)
    ELSE Source(a.name, "terms", PlainField(a.field), "")

\* BoundAxis.get_value
BoundAxis_get_value(a, value) ==
    IF interval_mapping(a.interval).found
    THEN Codec_postprocess(interval_mapping(a.interval), value)
    ELSE IF a.ftype = "date"
    THEN IF a.interval \in {"year", "month", "week", "day"}
         THEN DateOf(value)
         ELSE UtcFromTimestamp(value)
    ELSE Number(value)

\* BoundAxis.runtime_mappings: the codec's mapping, or nothing (None)
BoundAxis_runtime_mappings(a) ==
    IF interval_mapping(a.interval).found
    THEN Codec_mapping(interval_mapping(a.interval), a.field)
    ELSE {}

\* BoundAggregation.get_value
BoundAggregation_get_value(g) ==
    IF Truthy(g.value) /\ g.ftype = "date"
    THEN UtcFromTimestamp(g.value.v)
    ELSE g.value

NoOut ==
    [called |-> {}, q |-> Source(<<>>, "", PlainField(""), ""), v |-> Null, rm |-> {},
     agg |-> Null]

AxisInit ==
    /\ bax \in BoundAxes
    /\ raw \in RawValues
    /\ bagg \in {[ftype |-> t, value |-> val] :
                    t \in {"date", "long"}, val \in {Null} \cup {Number(v) : v \in RawValues}}
    /\ out = NoOut
    /\ CoreUnused
    /\ ThreadsUnused
    /\ FIELD_CACHE = {}
    /\ mapping = 1
    /\ cached = 0

AxisFrame == UNCHANGED <<corevars, threadvars, mapping, cached, bax, raw, bagg>>

CallQuery ==
    /\ "query" \notin out.called
    /\ out' = [out EXCEPT !.called = @ \cup {"query"}, !.q = BoundAxis_query(bax)]
    /\ AxisFrame

CallGetValue ==
    /\ "get_value" \notin out.called
    /\ out' = [out EXCEPT !.called = @ \cup {"get_value"},
                          !.v = BoundAxis_get_value(bax, raw)]
    /\ AxisFrame

CallRuntimeMappings ==
    /\ "runtime_mappings" \notin out.called
    /\ out' = [out EXCEPT !.called = @ \cup {"runtime_mappings"},
                          !.rm = BoundAxis_runtime_mappings(bax)]
    /\ AxisFrame

CallAggGetValue ==
    /\ "agg_get_value" \notin out.called
    /\ out' = [out EXCEPT !.called = @ \cup {"agg_get_value"},
                          !.agg = BoundAggregation_get_value(bagg)]
    /\ AxisFrame

AxisNext ==
    \/ CallQuery
    \/ CallGetValue
    \/ CallRuntimeMappings
    \/ CallAggGetValue

SpecAxis == AxisInit /\ [][AxisNext]_vars

\* C11: query() keys the source by the axis name and selects it by interval,
\* field type and codec: no interval gives terms on the field; an interval on a
\* non-date field a numeric histogram with that interval, codec-recognized or
\* not; an interval on a date field terms over the codec's runtime field when
\* the codec knows the interval and a calendar date_histogram otherwise.
C11_SourceByIntervalTypeCodec ==
    "query" \in out.called =>
        /\ ~out.q.error
        /\ out.q.key = bax.name
        /\ bax.interval = "" =>
              /\ out.q.agg = "terms"
              /\ out.q.field = [base |-> bax.field, runtime |-> ""]
        /\ (bax.interval # "" /\ bax.ftype # "date") =>
              /\ out.q.agg = "histogram"
              /\ out.q.field = [base |-> bax.field, runtime |-> ""]
              /\ out.q.interval = bax.interval
        /\ (bax.interval # "" /\ bax.ftype = "date" /\ bax.interval \in CodecIntervals) =>
              /\ out.q.agg = "terms"
              /\ out.q.field = [base |-> bax.field, runtime |-> bax.interval]
        /\ (bax.interval # "" /\ bax.ftype = "date" /\ bax.interval \notin CodecIntervals) =>
              /\ out.q.agg = "date_histogram"
              /\ out.q.field = [base |-> bax.field, runtime |-> ""]
              /\ out.q.interval = bax.interval

C11_Witness ==
    /\ "query" \in out.called
    /\ bax.ftype = "long"
    /\ bax.interval = "dayofweek"
    /\ out.q.agg = "histogram"

\* C12: BoundAggregation.get_value converts the value from epoch-milliseconds
\* to a timestamp exactly when the field type is date and the value is not
\* null, 0 included; a null value and any value of a non-date field are
\* returned unchanged.
C12_DateMetricConvertedWhenNonNull ==
    "agg_get_value" \in out.called =>
        IF bagg.ftype = "date" /\ bagg.value.kind # "null"
        THEN out.agg = [kind |-> "datetime", v |-> bagg.value.v, tag |-> ""]
        ELSE out.agg = bagg.value

\* C16: query(), get_value() and runtime_mappings() agree on the use of the
\* interval codec: get_value decodes with the codec and runtime_mappings emits
\* the codec's runtime field exactly when query() emitted the terms source
\* over that runtime field.
C16_CodecUseAgrees ==
    {"query", "get_value", "runtime_mappings"} \subseteq out.called =>
        /\ out.v.kind = "decoded" <=> out.q.field.runtime # ""
        /\ out.rm # {} <=> out.q.field.runtime # ""
        /\ out.rm # {} => out.rm = {out.q.field}

\* ======================================================================
\* The field-type cache of elastic.py: get_index_fields, the operations
\* that invalidate FIELD_CACHE, and the threads that run them on INDEX.
\* A mapping is a version number of the backend's mapping of INDEX; every
\* version is a non-empty mapping (an index always holds the required
\* fields), so a cached mapping is truthy.
\* ======================================================================
MaxVersion == 3

Threads == {"t1", "t2"}

Idle == [op |-> "none", at |-> "idle", ret |-> <<>>]

NoRet == [returned |-> FALSE, v |-> 0, cur |-> 0, error |-> "none"]

\* The mappings the backend can hold after a call that may change the mapping
\* m (put_mapping, or documents with fields the index did not have yet).
NextMappings(m) == {v \in 1..MaxVersion : v = m \/ v = m + 1}

\* del FIELD_CACHE[index]: the entry is gone.
DelEntry_keep(c) == c

DelEntry(c) == 0

\* A callee returns: the thread goes on at the position on top of ret, or is
\* idle when the operation itself returns.
Done(p) ==
    IF p.ret = <<>> THEN Idle ELSE [p EXCEPT !.at = Head(p.ret), !.ret = Tail(p.ret)]

AllIdle == \A t \in Threads : tpc[t].at = "idle"

\* No other thread is inside an operation.
Alone(t) == \A u \in Threads \ {t} : tpc[u].at = "idle"

\* Thread t can start a call: it is idle, and where calls do not overlap no
\* other call is in flight.
MayCall(t) == tpc[t].at = "idle" /\ (overlap \/ Alone(t))

CacheInit(concurrent) ==
    /\ overlap = concurrent
    /\ CoreUnused
    /\ AxisUnused
    /\ FIELD_CACHE \in {{}, {INDEX}}
    /\ mapping = 1
    /\ cached = IF INDEX \in FIELD_CACHE THEN mapping ELSE 0
    /\ tpc = [t \in Threads |-> Idle]
    /\ tlocal = [t \in Threads |-> 0]
    /\ tret = [t \in Threads |-> NoRet]

CacheFrame == UNCHANGED <<axes, aggregations, queries_arg, filters, pc, error, queries,
                          calls, stack, page, after_key, scalar, rows, result, pages,
                          emitted, runs, served, axisvars, overlap>>

\* A thread calls get_index_fields(INDEX).
CallGetIndexFields(t) ==
    /\ MayCall(t)
    /\ tpc' = [tpc EXCEPT ![t] = [op |-> "get_index_fields", at |-> "cache_get", ret |-> <<>>]]
    /\ tret' = [tret EXCEPT ![t] = NoRet]
    /\ UNCHANGED <<tlocal, mapping, cached, FIELD_CACHE>>
    /\ CacheFrame

\* A thread calls set_columns(INDEX, columns).
CallSetColumns(t) ==
    /\ MayCall(t)
    /\ tpc' = [tpc EXCEPT ![t] = [op |-> "set_columns", at |-> "put_mapping", ret |-> <<>>]]
    /\ tret' = [tret EXCEPT ![t] = NoRet]
    /\ UNCHANGED <<tlocal, mapping, cached, FIELD_CACHE>>
    /\ CacheFrame

\* A thread calls upload_documents(INDEX, documents, columns): set_columns
\* first when columns is non-empty, then _get_es_actions, which starts with
\* get_index_fields.
CallUploadDocuments(t, columns) ==
    /\ MayCall(t)
    /\ tpc' = [tpc EXCEPT ![t] =
                  IF columns
                  THEN [op |-> "upload_documents", at |-> "put_mapping",
                        ret |-> <<"cache_get", "actions">>]
                  ELSE [op |-> "upload_documents", at |-> "cache_get",
                        ret |-> <<"actions">>]]
    /\ tret' = [tret EXCEPT ![t] = NoRet]
    /\ UNCHANGED <<tlocal, mapping, cached, FIELD_CACHE>>
    /\ CacheFrame

\* A thread calls update_document(INDEX, doc_id, fields).
CallUpdateDocument(t) ==
    /\ MayCall(t)
    /\ tpc' = [tpc EXCEPT ![t] = [op |-> "update_document", at |-> "update", ret |-> <<>>]]
    /\ tret' = [tret EXCEPT ![t] = NoRet]
    /\ UNCHANGED <<tlocal, mapping, cached, FIELD_CACHE>>
    /\ CacheFrame

\* if result := FIELD_CACHE.get(index): return result
CacheGet(t) ==
    /\ tpc[t].at = "cache_get"
    /\ IF cached # 0
       THEN /\ tpc' = [tpc EXCEPT ![t] = Done(@)]
            /\ tret' = [tret EXCEPT ![t] = [returned |-> TRUE, v |-> cached,
                                            cur |-> mapping, error |-> "none"]]
       ELSE /\ tpc' = [tpc EXCEPT ![t].at = "fetch"]
            /\ tret' = tret
    /\ UNCHANGED <<tlocal, mapping, cached, FIELD_CACHE>>
    /\ CacheFrame

\* result = dict(_get_fields(index)): the mapping the backend holds now
GetFields(t) ==
    /\ tpc[t].at = "fetch"
    /\ tlocal' = [tlocal EXCEPT ![t] = mapping]
    /\ tpc' = [tpc EXCEPT ![t].at = "store"]
    /\ UNCHANGED <<tret, mapping, cached, FIELD_CACHE>>
    /\ CacheFrame

\* FIELD_CACHE[index] = result; return result
CacheStore(t) ==
    /\ tpc[t].at = "store"
    /\ cached' = tlocal[t]
    /\ FIELD_CACHE' = FIELD_CACHE \cup {INDEX}
    /\ tret' = [tret EXCEPT ![t] = [returned |-> TRUE, v |-> tlocal[t],
                                    cur |-> mapping, error |-> "none"]]
    /\ tlocal' = [tlocal EXCEPT ![t] = 0]
    /\ tpc' = [tpc EXCEPT ![t] = Done(@)]
    /\ UNCHANGED mapping
    /\ CacheFrame

\* The rest of _get_es_actions: a document without a required field raises
\* ValueError and upload_documents ends before the bulk request.
Actions(t, valid) ==
    /\ tpc[t].at = "actions"
    /\ IF valid
       THEN /\ tpc' = [tpc EXCEPT ![t].at = "bulk"]
            /\ tret' = tret
       ELSE /\ tpc' = [tpc EXCEPT ![t] = Idle]
            /\ tret' = [tret EXCEPT ![t].error = "ValueError"]
    /\ UNCHANGED <<tlocal, mapping, cached, FIELD_CACHE>>
    /\ CacheFrame

\* bulk(es(), actions): documents with new fields extend the mapping
Bulk(t, v) ==
    /\ tpc[t].at = "bulk"
    /\ mapping' = v
    /\ tpc' = [tpc EXCEPT ![t].at = "check"]
    /\ UNCHANGED <<tlocal, tret, cached, FIELD_CACHE>>
    /\ CacheFrame

\* es().indices.put_mapping(index=index, body=dict(properties=mapping))
PutMapping(t, v) ==
    /\ tpc[t].at = "put_mapping"
    /\ mapping' = v
    /\ tpc' = [tpc EXCEPT ![t].at = "check"]
    /\ UNCHANGED <<tlocal, tret, cached, FIELD_CACHE>>
    /\ CacheFrame

\* es().update(index=index, id=doc_id, doc=fields)
Update(t, v) ==
    /\ tpc[t].at = "update"
    /\ mapping' = v
    /\ tpc' = [tpc EXCEPT ![t].at = "check"]
    /\ UNCHANGED <<tlocal, tret, cached, FIELD_CACHE>>
    /\ CacheFrame

\* invalidate_field_cache: if index in FIELD_CACHE
InvalidateCheck(t) ==
    /\ tpc[t].at = "check"
    /\ tpc' = [tpc EXCEPT ![t] = IF INDEX \in FIELD_CACHE
                                 THEN [@ EXCEPT !.at = "del"]
                                 ELSE Done(@)]
    /\ UNCHANGED <<tlocal, tret, mapping, cached, FIELD_CACHE>>
    /\ CacheFrame

\* invalidate_field_cache: del FIELD_CACHE[index], a KeyError when another
\* thread deleted the entry after the test
InvalidateDel(t) ==
    /\ tpc[t].at = "del"
    /\ IF INDEX \in FIELD_CACHE
       THEN /\ cached' = DelEntry(cached)
            /\ FIELD_CACHE' = IF cached' = 0 THEN FIELD_CACHE \ {INDEX} ELSE FIELD_CACHE
            /\ tpc' = [tpc EXCEPT ![t] = Done(@)]
            /\ tret' = tret
       ELSE /\ UNCHANGED <<cached, FIELD_CACHE>>
            /\ tpc' = [tpc EXCEPT ![t] = Idle]
            /\ tret' = [tret EXCEPT ![t].error = "KeyError"]
    /\ UNCHANGED <<tlocal, mapping>>
    /\ CacheFrame

ThreadNext(t) ==
    \/ CallGetIndexFields(t)
    \/ CallSetColumns(t)
    \/ \E columns \in BOOLEAN : CallUploadDocuments(t, columns)
    \/ CallUpdateDocument(t)
    \/ CacheGet(t)
    \/ GetFields(t)
    \/ CacheStore(t)
    \/ \E valid \in BOOLEAN : Actions(t, valid)
    \/ \E v \in NextMappings(mapping) : Bulk(t, v)
    \/ \E v \in NextMappings(mapping) : PutMapping(t, v)
    \/ \E v \in NextMappings(mapping) : Update(t, v)
    \/ InvalidateCheck(t)
    \/ InvalidateDel(t)

\* Threads run their operations concurrently, one step at a time.
CacheNext == \E t \in Threads : ThreadNext(t)

CacheConcurrentInit == CacheInit(TRUE)

SpecCache == CacheConcurrentInit /\ [][CacheNext]_vars

\* Calls run one after the other: a call starts only while no other call is
\* in flight.
CacheSeqInit == CacheInit(FALSE)

SpecCacheSeq == CacheSeqInit /\ [][CacheNext]_vars

\* C13: after any sequence of completed upload_documents, set_columns and
\* update_document calls interleaved with lookups, a get_index_fields call
\* returns the mapping the backend holds at that moment, never a mapping
\* cached before the most recent upload or mapping change; between calls the
\* cache holds no entry or the backend's current mapping.
C13_LookupReturnsCurrentMapping ==
    /\ \A t \in Threads : tret[t].returned => tret[t].v = tret[t].cur
    /\ AllIdle => cached \in {0, mapping}

\* A lookup returned the first mapping and a later one the changed mapping.
C13_Witness ==
    /\ tret["t1"] = [returned |-> TRUE, v |-> 1, cur |-> 1, error |-> "none"]
    /\ tret["t2"] = [returned |-> TRUE, v |-> 2, cur |-> 2, error |-> "none"]
    /\ AllIdle

\* C15: with threads running get_index_fields concurrently with each other
\* and with set_columns / upload_documents, once all in-flight calls have
\* completed the cache entry of the index is absent or equal to the backend's
\* mapping, never an older mapping fetched before an invalidation.
C15_CacheCurrentWhenQuiescent ==
    AllIdle => (cached = 0 \/ cached = mapping)

\* C14 (as stated): query_aggregate leaves FIELD_CACHE unchanged, whether or
\* not the index had a cache entry: no step of the call changes the cache.
C14_CacheUnchanged ==
    [][FIELD_CACHE' = FIELD_CACHE /\ cached' = cached]_vars

\* C14 (amended): query_aggregate never removes or replaces an entry of
\* FIELD_CACHE. The only step that changes the cache is binding, when the index
\* has no entry and at least one field type is looked up: get_index_fields
\* then stores the mapping the backend holds. Every other step, and binding
\* with an entry present or with nothing to look up, leaves the cache as it is.
C14_CacheOnlyFilledOnMiss ==
    [][IF pc = "bind" /\ INDEX \notin FIELD_CACHE /\ BindLookups(axes, aggregations) # <<>>
       THEN FIELD_CACHE' = FIELD_CACHE \cup {INDEX} /\ cached' = mapping
       ELSE FIELD_CACHE' = FIELD_CACHE /\ cached' = cached]_vars

\* query_aggregate returned after its binding fetched and cached the mapping.
C14_Witness ==
    /\ pc = "done"
    /\ error = "none"
    /\ FIELD_CACHE = {INDEX}
    /\ cached = mapping
    /\ \E i \in 1..Len(calls) : calls[i] = GetMappingCall

====
